---------------------------- MODULE Spec2Model ----------------------------
(***************************************************************************)
(* The BRC-105 payment gate of clawsats-indelible                          *)
(* (createIndeliblePaymentMiddleware, src/unnamed/part_003, and its two    *)
(* earlier variants in src/unnamed/part_002).                              *)
(*                                                                         *)
(* One gate instance is modelled: its configuration, its replay set        *)
(* usedPrefixes, and NReq request slots.  The handler is an async          *)
(* function on a single-threaded event loop, so it runs in segments that   *)
(* are atomic between its awaits:                                          *)
(*   Arrive       the request is received, calculatePrice(req) is called   *)
(*                and awaited (line 83);                                   *)
(*   AfterPrice   the price resolves; the handler runs to a response, to   *)
(*                next(), or to the await of wallet.internalizeAction;     *)
(*   PriceRejects calculatePrice fails; the handler's promise rejects;     *)
(*   WalletResolve / WalletReject                                          *)
(*                the delegate's promise settles and the handler runs to   *)
(*                next() or to the 400 response.                           *)
(* The request's price and header are drawn where the handler first reads  *)
(* them (lines 83 and 91).                                                 *)
(***************************************************************************)
EXTENDS Integers, Sequences, FiniteSets, TLC

(***************************************************************************)
(* Bounds of the model.                                                    *)
(***************************************************************************)
NReq == 2            \* request slots that can be in flight together
PaidPrice == 15      \* the non-zero price calculatePrice returns
BatchSize == 9999    \* requests in one batch of fresh-prefix traffic
MaxBatches == 2      \* batches of fresh-prefix traffic in one behaviour
NGates == 2          \* gate instances created in one process
MaxLines == 3        \* lines that arrive on the adapter's stdin
NEscrows == 2        \* escrow agreements created
MaxHours == 3        \* hours that pass after the agreements were created
MaxAttestations == 5 \* attestations handed to buildOracleConsensus

(***************************************************************************)
(* Program constants.                                                      *)
(***************************************************************************)
FEE_SATS == 2
CLAWSATS_PROTOCOL_FEE == 2
CleanupThreshold == 10000
CleanupCount == 5000

Req == 1..NReq
Prices == {0, PaidPrice}
Prefixes == {"pA", "pB"}
NoPrefix == "none"
AnonPrefix == "fresh"
\* payment.derivationPrefix of a proof that has no such field
Undefined == "undefined"

operatorAddress == "operatorAddr"
feeAddress == "feeAddr"
otherAddress == "otherAddr"

(***************************************************************************)
(* Transactions.  A locking script is the P2PKH script of an address; an   *)
(* output is a locking script and an amount.                               *)
(***************************************************************************)
P2PKHLock(address) == <<"76a914", address, "88ac">>

Out(address, sats) == [lockingScript |-> P2PKHLock(address), satoshis |-> sats]

TxPay == << Out(operatorAddress, PaidPrice + 5) >>
TxUnder == << Out(operatorAddress, PaidPrice - 5), Out(otherAddress, 5) >>
TxSplitFee == << Out(operatorAddress, PaidPrice - 5), Out(feeAddress, FEE_SATS),
                 Out(operatorAddress, 5) >>
TxFeeElsewhere == << Out(operatorAddress, PaidPrice), Out(otherAddress, FEE_SATS) >>
TxTwoToOperator == << Out(operatorAddress, PaidPrice - 5), Out(operatorAddress, 5) >>

Txs == {TxPay, TxUnder, TxSplitFee, TxFeeElsewhere, TxTwoToOperator}

(***************************************************************************)
(* The transaction field of a payment header: absent (undefined, empty or  *)
(* not a string), the hex encoding of a transaction, or a string that the  *)
(* decoder rejects on one of its four paths:                               *)
(*   BadHex         hex digits only, which Transaction.fromHex rejects;    *)
(*   BadBeef        base64 of bytes that start with the BEEF magic, which  *)
(*                  Transaction.fromBEEF rejects;                          *)
(*   BadAtomicBeef  the same with the AtomicBEEF magic;                    *)
(*   GarbageTx      any other string: its base64 decoding carries no       *)
(*                  magic and is not a raw transaction.                    *)
(* A header is absent, text that JSON.parse rejects, or a proof with a     *)
(* derivationPrefix and a transaction field.                               *)
(***************************************************************************)
AbsentTx == [enc |-> "absent", outs |-> << >>]
GarbageTx == [enc |-> "garbage", outs |-> << >>]
BadHex == [enc |-> "badhex", outs |-> << >>]
BadBeef == [enc |-> "badbeef", outs |-> << >>]
BadAtomicBeef == [enc |-> "badatomicbeef", outs |-> << >>]
HexOf(tx) == [enc |-> "hex", outs |-> tx]

Undecodable == {GarbageTx, BadHex, BadBeef, BadAtomicBeef}

NoHeader ==
  [present |-> FALSE, parses |-> FALSE, derivationPrefix |-> NoPrefix,
   transaction |-> AbsentTx]

MalformedHeader ==
  [present |-> TRUE, parses |-> FALSE, derivationPrefix |-> NoPrefix,
   transaction |-> AbsentTx]

Headers ==
  {NoHeader, MalformedHeader} \cup
  [present : {TRUE}, parses : {TRUE}, derivationPrefix : Prefixes,
   transaction : {AbsentTx} \cup Undecodable \cup {HexOf(tx) : tx \in Txs}]

\* a request priced 0 returns at line 88 before its header is read at line
\* 91: an absent header, text that is not JSON and one proof per prefix stand
\* for all its headers
HeadersOf(price) ==
  IF price = 0
    THEN {h \in Headers : ~h.parses \/ h.transaction = HexOf(TxPay)}
    ELSE Headers

NoMessage == << >>

(***************************************************************************)
(* State.                                                                  *)
(*   wallet, requireProtocolFee, feePolicy   the gate's configuration      *)
(*       (feePolicy: "structural" is part_003, "address" is part_002);     *)
(*   usedPrefixes   the replay set;                                        *)
(*   slot           each request slot's position in the handler and what   *)
(*                  its closure holds across the await;                    *)
(*   last           the handler segment executed last and its response.    *)
(* History, written only to state the claims:                              *)
(*   accepts[p]     paid requests accepted with prefix p (counted to 2);   *)
(*   live[p]        the same, since p was last evicted from the set;       *)
(*   openReject[p]  p was rejected by a verification step and no request   *)
(*                  carrying p has been accepted;                          *)
(*   batches        the batches of fresh-prefix traffic so far.            *)
(* Apart from the one gate:                                                *)
(*   probe          the inputs and results of a function applied on its    *)
(*                  own (the decoder, the static payment check);           *)
(*   gates          the replay sets of the gate instances created in one   *)
(*                  process, and gateLast the request handled last by one  *)
(*                  of them;                                               *)
(*   spent[tx]      paid requests accepted with transaction tx (counted to *)
(*                  2), where one client sends its proofs to the gate one  *)
(*                  after another;                                         *)
(*   twin           two runs of a gate side by side: each run's replay     *)
(*                  set, the prefixes its challenges carried and the proof *)
(*                  it handled last.                                       *)
(* The MCP adapter (mcp-adapter/index.js), a process of its own:           *)
(*   stdin          the lines readline has buffered, oldest first;         *)
(*   stdout         what console.log has written, each response with the   *)
(*                  line it answers;                                       *)
(*   rpcId          the module's JSON-RPC id counter;                      *)
(*   pending        the lines whose handleRequest awaits the wallet;       *)
(*   calls          the bodies POSTed to the wallet endpoint, in order;    *)
(*   taken          the lines the loop has taken, in order (history);      *)
(*   arrived        the number of lines that have arrived (history).       *)
(* The escrow functions, which keep no state of their own:                 *)
(*   escrow         the agreements createEscrow returned;                  *)
(*   now            the hours since they were created;                     *)
(*   settled        for each agreement, whether a releaseEscrow and        *)
(*                  whether a refundEscrow call has succeeded (history);   *)
(*   escrowCall     the call made last and how it ended.                   *)
(***************************************************************************)
VARIABLES wallet, requireProtocolFee, feePolicy, usedPrefixes, slot, last,
          accepts, live, openReject, batches, probe, gates, gateLast,
          spent, twin, stdin, stdout, rpcId, pending, calls, taken, arrived,
          escrow, now, settled, escrowCall

config == <<wallet, requireProtocolFee, feePolicy>>
history == <<accepts, live, openReject>>
adapter == <<stdin, stdout, rpcId, pending, calls, taken, arrived>>
escrows == <<escrow, now, settled, escrowCall>>
others == <<spent, twin, adapter, escrows>>
aside == <<probe, gates, gateLast, others>>
vars == <<wallet, requireProtocolFee, feePolicy, usedPrefixes, slot, last,
          accepts, live, openReject, batches, probe, gates, gateLast,
          spent, twin, stdin, stdout, rpcId, pending, calls, taken, arrived,
          escrow, now, settled, escrowCall>>

(***************************************************************************)
(* The other encodings a client can send, used where the decoder is        *)
(* applied on its own.  TxPlain is the transaction with the bytes          *)
(*   00000000 00 01 0000000000000000 02 0000 00000000                      *)
(* (version 0, no input, one output of 0 satoshis with script 0000,        *)
(* locktime 0), whose base64 text AAAAAAABAAAAAAAAAAACAAAAAAAA is made of  *)
(* hexadecimal characters only.  BeefMagicOnly and AtomicMagicOnly are the *)
(* base64 texts of the four magic bytes alone.                             *)
(***************************************************************************)
TxPlain == << [lockingScript |-> <<"0000">>, satoshis |-> 0] >>

Base64Of(tx) == [enc |-> "base64", outs |-> tx]
BeefOf(tx) == [enc |-> "beef", outs |-> tx]
AtomicBeefOf(tx) == [enc |-> "atomicbeef", outs |-> tx]
BeefMagicOnly == [enc |-> "beefmagic", outs |-> << >>]
AtomicMagicOnly == [enc |-> "atomicmagic", outs |-> << >>]

TxStrings ==
  Undecodable
  \cup {HexOf(tx) : tx \in {TxPay, TxUnder, TxPlain}}
  \cup {Base64Of(tx) : tx \in {TxPay, TxUnder, TxPlain}}
  \cup {BeefOf(TxPay), AtomicBeefOf(TxPay), BeefMagicOnly, AtomicMagicOnly}

\* a decoder of the library throws; message is the error's message
ParseError(message) ==
  [ok |-> FALSE, outputs |-> << >>, message |-> <<message>>, path |-> "none"]

Parsed(outputs) ==
  [ok |-> TRUE, outputs |-> outputs, message |-> NoMessage, path |-> "none"]

\* the branch of parseTransaction that produced the result
Via(path, result) == [result EXCEPT !.path = path]

\* /^[0-9a-fA-F]+$/.test(txString); the base64 text of TxPlain's bytes has
\* hexadecimal characters only
IsHexString(txString) ==
  \/ txString.enc \in {"hex", "badhex"}
  \/ txString.enc = "base64" /\ txString.outs = TxPlain

\* Utils.toArray(txString, 'base64'): the bytes, by what they hold
toArray(txString) ==
  IF txString.enc \in {"base64", "beef", "atomicbeef", "beefmagic",
                       "atomicmagic", "badbeef", "badatomicbeef"}
    THEN [kind |-> txString.enc, outs |-> txString.outs]
    ELSE [kind |-> "junk", outs |-> << >>]

\* binary.length > 4
LongerThan4(binary) == binary.kind \notin {"beefmagic", "atomicmagic"}

\* (binary[0] << 24) | (binary[1] << 16) | (binary[2] << 8) | binary[3]
Magic(binary) ==
  IF binary.kind \in {"beef", "badbeef", "beefmagic"} THEN "0100BEEF"
  ELSE IF binary.kind \in {"atomicbeef", "badatomicbeef", "atomicmagic"}
    THEN "01010101"
  ELSE "other"

\* Utils.toHex(binary)
toHex(binary) ==
  IF binary.kind = "base64" THEN HexOf(binary.outs) ELSE BadHex

\* Transaction.fromHex: the text is read as hexadecimal digits
fromHex(hexString) ==
  IF hexString.enc = "hex" THEN Parsed(hexString.outs)
  ELSE ParseError("fromHex failed")

fromBEEF(binary) ==
  IF binary.kind = "beef" THEN Parsed(binary.outs)
  ELSE ParseError("fromBEEF failed")

fromAtomicBEEF(binary) ==
  IF binary.kind = "atomicbeef" THEN Parsed(binary.outs)
  ELSE ParseError("fromAtomicBEEF failed")

\* a faulty variant: a string that is not a transaction decodes to an empty one
parseLenient(txString) ==
  IF txString.enc = "hex" THEN Parsed(txString.outs) ELSE Parsed(<< >>)

\* a faulty variant: the magic bytes are looked at before the character set
parseMagicFirst(txString) ==
  LET binary == toArray(txString) IN
  IF LongerThan4(binary) /\ Magic(binary) = "0100BEEF"
    THEN Via("beef", fromBEEF(binary))
  ELSE IF LongerThan4(binary) /\ Magic(binary) = "01010101"
    THEN Via("atomicbeef", fromAtomicBEEF(binary))
  ELSE IF binary.kind = "base64" THEN Via("raw", fromHex(toHex(binary)))
  ELSE Via("hex", fromHex(txString))

\* a faulty variant: the decoder keeps state across calls in the replay set
parseRemembering(txString) ==
  IF usedPrefixes = << >> THEN parseMagicFirst(txString)
  ELSE ParseError("already decoded")

parseTransaction(txString) ==
  IF IsHexString(txString) THEN Via("hex", fromHex(txString))
  ELSE LET binary == toArray(txString) IN
    IF LongerThan4(binary) /\ Magic(binary) = "0100BEEF"
      THEN Via("beef", fromBEEF(binary))
    ELSE IF LongerThan4(binary) /\ Magic(binary) = "01010101"
      THEN Via("atomicbeef", fromAtomicBEEF(binary))
    ELSE Via("raw", fromHex(toHex(binary)))

(***************************************************************************)
(* The replay set: a JavaScript Set, which iterates in insertion order.    *)
(* It is kept as the sequence of its members, oldest first, run-length     *)
(* encoded: a named prefix is a run of length 1, and a run of n prefixes   *)
(* that are never submitted again (AnonPrefix) stands for n distinct       *)
(* members.                                                                *)
(***************************************************************************)
RECURSIVE SetSize(_)
SetSize(s) == IF s = << >> THEN 0 ELSE Head(s).n + SetSize(Tail(s))

SetHas(s, x) == \E i \in 1..Len(s) : s[i].tok = x

SetAdd(s, x) ==
  IF SetHas(s, x) THEN s ELSE Append(s, [tok |-> x, n |-> 1])

\* k adds of prefixes that are all new to the set
SetAddFresh(s, k) ==
  IF k = 0 THEN s
  ELSE IF s # << >> /\ s[Len(s)].tok = AnonPrefix
    THEN [s EXCEPT ![Len(s)].n = @ + k]
    ELSE Append(s, [tok |-> AnonPrefix, n |-> k])

\* a faulty variant: the k values inserted last are deleted
RECURSIVE DeleteNewest(_, _)
DeleteNewest(s, k) ==
  IF k = 0 \/ s = << >> THEN s
  ELSE LET l == s[Len(s)]
           front == SubSeq(s, 1, Len(s) - 1)
       IN IF l.n <= k THEN DeleteNewest(front, k - l.n)
          ELSE Append(front, [l EXCEPT !.n = @ - k])

\* the loop of cleanupPrefixes: delete the first k values of the iterator
RECURSIVE DeleteOldest(_, _)
DeleteOldest(s, k) ==
  IF k = 0 \/ s = << >> THEN s
  ELSE IF Head(s).n <= k THEN DeleteOldest(Tail(s), k - Head(s).n)
  ELSE << [Head(s) EXCEPT !.n = @ - k] >> \o Tail(s)

\* a faulty variant: the set is cleaned one prefix too late
cleanupLate(prefixSet) ==
  IF SetSize(prefixSet) > CleanupThreshold + 1
    THEN DeleteOldest(prefixSet, CleanupCount)
    ELSE prefixSet

cleanupPrefixes(prefixSet) ==
  IF SetSize(prefixSet) > CleanupThreshold
    THEN DeleteOldest(prefixSet, CleanupCount)
    ELSE prefixSet

\* usedPrefixes.add(derivationPrefix); cleanupPrefixes(usedPrefixes)
RecordPrefix(used, prefix) == cleanupPrefixes(SetAdd(used, prefix))

IdleSlot == [pc |-> "idle", price |-> 0, prefix |-> NoPrefix, facts |-> {}]

(***************************************************************************)
(* The responses of the handler, one per exit of the handler; used is the  *)
(* replay set the exit leaves, steps the checks the handler ran on the     *)
(* way.  tx.id('hex') and next() are taken not to throw.  A response body  *)
(* carries an operatorAddress only in the challenge, an error message in   *)
(* the 400 responses, and req.payment the delegate's result in wallet      *)
(* mode.                                                                   *)
(***************************************************************************)
NoAddress == "none"
NoResult == 0

Response(outcome, status, code, paid, required, used, steps) ==
  [outcome |-> outcome, status |-> status, code |-> code,
   satoshisPaid |-> paid, satoshisRequired |-> required,
   used |-> used, steps |-> steps,
   operatorAddress |-> NoAddress, message |-> NoMessage, result |-> NoResult]

\* res.status(400).json({ error: message, ... })
WithError(resp, message) == [resp EXCEPT !.message = message]

IsFree(price) == price = 0

FreePass(used) ==
  Response("Accepted", 0, "Free", 0, 0, used, {})

\* a faulty variant: the prefix issued in the challenge is put in the replay set
ChallengeStoresPrefix(used, price) ==
  [Response("Challenged", 402, "ERR_PAYMENT_REQUIRED", 0, price,
            SetAddFresh(used, 1), {})
     EXCEPT !.operatorAddress = operatorAddress]

Challenge(used, price) ==
  [Response("Challenged", 402, "ERR_PAYMENT_REQUIRED", 0, price, used, {})
     EXCEPT !.operatorAddress = operatorAddress]

\* a faulty variant: the replay check never finds the prefix
ReplayNeverDetected(used, derivationPrefix) == FALSE

\* a faulty variant: only a proof that names a prefix is checked for replay
ReplayDetectedIfNamed(used, derivationPrefix) ==
  derivationPrefix # Undefined /\ SetHas(used, derivationPrefix)

ReplayDetected(used, derivationPrefix) == SetHas(used, derivationPrefix)

\* the outer catch: JSON.parse(paymentHeader) throws
VerificationFailed(used, price) ==
  WithError(
    Response("Rejected", 400, "PaymentVerificationFailed", 0, price, used, {}),
    <<"Payment verification failed: JSON.parse failed">>)

ReplayRejected(used, price) ==
  WithError(
    Response("Rejected", 400, "ReplayDetected", 0, price, used, {"replayCheck"}),
    <<"Payment prefix already used (replay detected)">>)

TransactionMissing(transaction) == transaction.enc = "absent"

\* a faulty variant: a missing transaction field is handed to the decoder
InvalidTransactionDecoded(used, price) ==
  WithError(
    Response("Rejected", 400, "InvalidTransactionFormat", 0, price, used,
             {"replayCheck", "decode"}),
    <<"Invalid transaction: ", "fromHex failed">>)

InvalidTransaction(used, price) ==
  WithError(
    Response("Rejected", 400, "InvalidPaymentTransaction", 0, price, used,
             {"replayCheck"}),
    <<"Invalid payment transaction">>)

\* the message is `Invalid transaction: ${parseErr.message}`
ParseFailed(used, price, message) ==
  WithError(
    Response("Rejected", 400, "InvalidTransactionFormat", 0, price, used,
             {"replayCheck", "decode"}),
    <<"Invalid transaction: ">> \o message)

WalletMode == wallet

WalletSuspended(used, price) ==
  Response("Suspended", 0, "AwaitingWallet", 0, price, used,
           {"replayCheck", "decode", "walletCall"})

\* req.payment = { satoshisPaid: price, ..., internalized: true, result }
WalletAccepted(used, derivationPrefix, price, result) ==
  [Response("Accepted", 0, "Internalized", price, price,
            RecordPrefix(used, derivationPrefix),
            {"replayCheck", "decode", "walletCall", "record"})
     EXCEPT !.result = result]

\* a faulty variant: the prefix is recorded before the delegate's verdict is known
WalletFailedRecords(used, derivationPrefix, price) ==
  WithError(
    Response("Rejected", 400, "WalletInternalizationFailed", 0, price,
             RecordPrefix(used, derivationPrefix),
             {"replayCheck", "decode", "walletCall"}),
    <<"Wallet internalization failed">>)

\* a faulty variant: when the delegate throws, static matching decides instead
WalletFallsBack(used, derivationPrefix, price) ==
  Response("Accepted", 0, "Paid", price, price,
           RecordPrefix(used, derivationPrefix),
           {"replayCheck", "decode", "walletCall", "verify", "record"})

WalletFailed(used, derivationPrefix, price) ==
  WithError(
    Response("Rejected", 400, "WalletInternalizationFailed", 0, price, used,
             {"replayCheck", "decode", "walletCall"}),
    <<"Wallet internalization failed">>)

\* a faulty variant: every output is counted, whatever its locking script
RECURSIVE SumEveryOutput(_, _, _, _)
SumEveryOutput(outputs, script, i, acc) ==
  IF i > Len(outputs) THEN acc
  ELSE SumEveryOutput(outputs, script, i + 1, acc + outputs[i].satoshis)

\* for (const output of tx.outputs) if (script === expected) paid += satoshis
RECURSIVE SumToScript(_, _, _, _)
SumToScript(outputs, script, i, acc) ==
  IF i > Len(outputs) THEN acc
  ELSE SumToScript(outputs, script, i + 1,
         IF outputs[i].lockingScript = script
           THEN acc + outputs[i].satoshis ELSE acc)

StaticPaid(outputs) ==
  SumToScript(outputs, P2PKHLock(operatorAddress), 1, 0)

\* a faulty variant: any non-zero payment is taken as enough
PaymentShortOfOne(satoshisPaid, price) == satoshisPaid < 1

\* a faulty variant: only the exact amount is taken as enough
PaymentNotExact(satoshisPaid, price) == satoshisPaid # price

PaymentShort(satoshisPaid, price) == satoshisPaid < price

\* a faulty variant: the prefix is recorded before the amount is checked
InsufficientRecords(used, derivationPrefix, satoshisPaid, price) ==
  Response("Rejected", 400, "InsufficientPayment", satoshisPaid, price,
           RecordPrefix(used, derivationPrefix),
           {"replayCheck", "decode", "verify"})

\* `Insufficient payment: ${satoshisPaid} sats paid, ${price} required`
InsufficientMessage(satoshisPaid, price) ==
  <<"Insufficient payment: ", satoshisPaid, " sats paid, ", price, " required">>

\* a faulty variant: the body reports the price as the amount found
InsufficientReportsPrice(used, derivationPrefix, satoshisPaid, price) ==
  WithError(
    Response("Rejected", 400, "InsufficientPayment", price, price, used,
             {"replayCheck", "decode", "verify"}),
    InsufficientMessage(price, price))

Insufficient(used, derivationPrefix, satoshisPaid, price) ==
  WithError(
    Response("Rejected", 400, "InsufficientPayment", satoshisPaid, price, used,
             {"replayCheck", "decode", "verify"}),
    InsufficientMessage(satoshisPaid, price))

\* part_003: for (let i = 1; i < tx.outputs.length; i++) (indices from 0)
RECURSIVE FeeOutputFound(_, _)
FeeOutputFound(outputs, i) ==
  IF i > Len(outputs) THEN FALSE
  ELSE IF outputs[i].satoshis >= FEE_SATS THEN TRUE
  ELSE FeeOutputFound(outputs, i + 1)

\* part_002: the outputs paying feeAddress are summed
FeePaidToAddress(outputs) ==
  SumToScript(outputs, P2PKHLock(feeAddress), 1, 0) >= CLAWSATS_PROTOCOL_FEE

FeeCheckPasses(outputs) ==
  IF feePolicy = "structural"
    THEN FeeOutputFound(outputs, 2)
    ELSE FeePaidToAddress(outputs)

\* a faulty variant: the prefix is recorded before the fee check
MissingFeeRecords(used, derivationPrefix, satoshisPaid, price) ==
  Response("Rejected", IF feePolicy = "structural" THEN 402 ELSE 400,
           IF feePolicy = "structural" THEN "ERR_MISSING_FEE"
                                       ELSE "ProtocolFeeMissing",
           satoshisPaid, price, RecordPrefix(used, derivationPrefix),
           {"replayCheck", "decode", "verify", "feeCheck"})

MissingFee(used, derivationPrefix, satoshisPaid, price) ==
  IF feePolicy = "structural"
    THEN Response("Rejected", 402, "ERR_MISSING_FEE", satoshisPaid, price, used,
                  {"replayCheck", "decode", "verify", "feeCheck"})
    ELSE WithError(
           Response("Rejected", 400, "ProtocolFeeMissing", satoshisPaid, price,
                    used, {"replayCheck", "decode", "verify", "feeCheck"}),
           <<"Protocol fee missing">>)

\* a faulty variant: an accepted request does not record its prefix
StaticAcceptedUnrecorded(used, derivationPrefix, satoshisPaid, price) ==
  Response("Accepted", 0, "Paid", satoshisPaid, price, used,
           {"replayCheck", "decode", "verify", "record"}
             \cup (IF requireProtocolFee THEN {"feeCheck"} ELSE {}))

StaticAccepted(used, derivationPrefix, satoshisPaid, price) ==
  Response("Accepted", 0, "Paid", satoshisPaid, price,
           RecordPrefix(used, derivationPrefix),
           {"replayCheck", "decode", "verify", "record"}
             \cup (IF requireProtocolFee THEN {"feeCheck"} ELSE {}))

\* a faulty variant: the fee check runs before the amount is checked
StaticVerificationFeeFirst(used, derivationPrefix, outputs, price) ==
  LET satoshisPaid == StaticPaid(outputs) IN
  IF requireProtocolFee /\ ~FeeCheckPasses(outputs)
    THEN MissingFee(used, derivationPrefix, satoshisPaid, price)
  ELSE IF PaymentShort(satoshisPaid, price)
    THEN Insufficient(used, derivationPrefix, satoshisPaid, price)
  ELSE StaticAccepted(used, derivationPrefix, satoshisPaid, price)

\* lines 182-231: static output matching, the fee check, the record
StaticVerification(used, derivationPrefix, outputs, price) ==
  LET satoshisPaid == StaticPaid(outputs) IN
  IF PaymentShort(satoshisPaid, price)
    THEN Insufficient(used, derivationPrefix, satoshisPaid, price)
  ELSE IF requireProtocolFee /\ ~FeeCheckPasses(outputs)
    THEN MissingFee(used, derivationPrefix, satoshisPaid, price)
  ELSE StaticAccepted(used, derivationPrefix, satoshisPaid, price)

\* a faulty variant: the transaction field is looked at before the replay check
PaidPathTxFirst(used, header, price) ==
  IF ~header.parses THEN VerificationFailed(used, price)
  ELSE IF TransactionMissing(header.transaction)
    THEN InvalidTransaction(used, price)
  ELSE IF ReplayDetected(used, header.derivationPrefix)
    THEN ReplayRejected(used, price)
  ELSE LET tx == parseTransaction(header.transaction) IN
    IF ~tx.ok THEN ParseFailed(used, price, tx.message)
    ELSE IF WalletMode THEN WalletSuspended(used, price)
    ELSE StaticVerification(used, header.derivationPrefix, tx.outputs, price)

\* lines 124-180 and 232-234: the proof is checked up to the verification mode
PaidPath(used, header, price) ==
  IF ~header.parses THEN VerificationFailed(used, price)
  ELSE IF ReplayDetected(used, header.derivationPrefix)
    THEN ReplayRejected(used, price)
  ELSE IF TransactionMissing(header.transaction)
    THEN InvalidTransaction(used, price)
  ELSE LET tx == parseTransaction(header.transaction) IN
    IF ~tx.ok THEN ParseFailed(used, price, tx.message)
    ELSE IF WalletMode THEN WalletSuspended(used, price)
    ELSE StaticVerification(used, header.derivationPrefix, tx.outputs, price)

\* a faulty variant: the payment header is looked at before the price
HandleHeaderFirst(used, header, price) ==
  IF ~header.present
    THEN (IF IsFree(price) THEN FreePass(used) ELSE Challenge(used, price))
    ELSE PaidPath(used, header, price)

\* lines 83-121 and on: the segment that runs when the price resolves
HandleAfterPrice(used, header, price) ==
  IF IsFree(price) THEN FreePass(used)
  ELSE IF ~header.present THEN Challenge(used, price)
  ELSE PaidPath(used, header, price)

(***************************************************************************)
(* What is true of a request, stated apart from the handler's own code:    *)
(* the facts the claims speak of.                                          *)
(***************************************************************************)
RECURSIVE SumOver(_, _)
SumOver(outputs, indices) ==
  IF indices = {} THEN 0
  ELSE LET i == CHOOSE j \in indices : TRUE
       IN outputs[i].satoshis + SumOver(outputs, indices \ {i})

MatchingSum(outputs, address) ==
  SumOver(outputs, {i \in 1..Len(outputs) :
                      outputs[i].lockingScript = P2PKHLock(address)})

FeeTruth(outputs) ==
  IF feePolicy = "structural"
    THEN \E i \in 2..Len(outputs) : outputs[i].satoshis >= 2
    ELSE MatchingSum(outputs, feeAddress) >= 2

Facts(used, header, price) ==
  IF ~(header.present /\ header.parses) THEN {}
  ELSE
    (IF \A i \in 1..Len(used) : used[i].tok # header.derivationPrefix
       THEN {"prefixAbsent"} ELSE {})
    \cup
    (IF header.transaction \in {HexOf(tx) : tx \in Txs}
       THEN {"txDecoded"}
            \cup (IF MatchingSum(header.transaction.outs, operatorAddress) >= price
                    THEN {"paid"} ELSE {})
            \cup (IF FeeTruth(header.transaction.outs) THEN {"feePaid"} ELSE {})
       ELSE {})

VerificationCodes ==
  {"InvalidTransactionFormat", "InsufficientPayment", "ERR_MISSING_FEE",
   "ProtocolFeeMissing", "WalletInternalizationFailed"}

PaidCodes == {"Paid", "Internalized"}

Min2(n) == IF n >= 2 THEN 2 ELSE n

Evicted(before, after) ==
  {q \in Prefixes : SetHas(before, q) /\ ~SetHas(after, q)}

\* the history after a segment with response resp for prefix p
HistoryStep(resp, p) ==
  LET paid == resp.outcome = "Accepted" /\ resp.code \in PaidCodes
      failed == resp.outcome = "Rejected" /\ resp.code \in VerificationCodes
  IN
  /\ accepts' = [q \in Prefixes |->
                  IF paid /\ q = p THEN Min2(accepts[q] + 1) ELSE accepts[q]]
  /\ live' = [q \in Prefixes |->
               IF q \in Evicted(usedPrefixes, resp.used) THEN 0
               ELSE IF paid /\ q = p THEN Min2(live[q] + 1) ELSE live[q]]
  /\ openReject' = [q \in Prefixes |->
                     IF paid /\ q = p THEN FALSE
                     ELSE IF failed /\ q = p /\ live[q] = 0 THEN TRUE
                     ELSE openReject[q]]

Segment(seg, price, header, resp, facts) ==
  [seg |-> seg, price |-> price, hasHeader |-> header.present,
   hasProof |-> header.present /\ header.parses,
   prefix |-> header.derivationPrefix, tx |-> header.transaction,
   outcome |-> resp.outcome, status |-> resp.status, code |-> resp.code,
   satoshisPaid |-> resp.satoshisPaid,
   satoshisRequired |-> resp.satoshisRequired,
   steps |-> resp.steps, facts |-> facts,
   retry |-> header.derivationPrefix \in Prefixes
             /\ openReject[header.derivationPrefix],
   operatorAddress |-> resp.operatorAddress, message |-> resp.message,
   result |-> resp.result, changed |-> resp.used # usedPrefixes]

NoSegment ==
  [seg |-> "none", price |-> 0, hasHeader |-> FALSE, hasProof |-> FALSE,
   prefix |-> NoPrefix,
   tx |-> AbsentTx, outcome |-> "None", status |-> 0, code |-> "None",
   satoshisPaid |-> 0, satoshisRequired |-> 0, steps |-> {}, facts |-> {},
   retry |-> FALSE, operatorAddress |-> NoAddress, message |-> NoMessage,
   result |-> NoResult, changed |-> FALSE]

(***************************************************************************)
(* Init: the gate as createIndeliblePaymentMiddleware(config) returns it.  *)
(***************************************************************************)
Gate == 1..NGates

NoProbe == [op |-> "none"]

NoGateRequest ==
  [gate |-> 0, prefix |-> NoPrefix, outcome |-> "None", code |-> "None",
   consumedBefore |-> FALSE]

\* no request handled yet, whatever the configuration
InitRequests ==
  /\ usedPrefixes = << >>
  /\ slot = [r \in Req |-> IdleSlot]
  /\ last = NoSegment
  /\ accepts = [p \in Prefixes |-> 0]
  /\ live = [p \in Prefixes |-> 0]
  /\ openReject = [p \in Prefixes |-> FALSE]
  /\ batches = 0

\* the transactions the one client pays with
ClientTxs == {TxPay, TxUnder}

Runs == {"a", "b"}

Escrow == 1..NEscrows

\* Utils.toHex(Hash.sha256(Utils.toArray(preimage, 'utf8')))
Sha256Hex(preimage) == <<"sha256", preimage>>

\* PrivateKey.fromWif(wif).toPublicKey().toString()
PubKeyOf(wif) == <<"pub", wif>>

\* createEscrow: created at hour 0, expires timeoutHours later
createEscrow(payerWif, payeePubKey, preimage, timeoutHours) ==
  [payerPubKey |-> PubKeyOf(payerWif), payeePubKey |-> payeePubKey,
   conditionHash |-> Sha256Hex(preimage), timeoutHours |-> timeoutHours,
   createdAt |-> 0, expiresAt |-> timeoutHours, status |-> "pending"]

\* nothing paid, no run served, let rpcId = 1 with nothing read or written,
\* no agreement created
InitOthers ==
  /\ spent = [tx \in ClientTxs |-> 0]
  /\ twin = [g \in Runs |->
               [used |-> << >>, issued |-> {},
                served |-> [header |-> NoHeader, usedBefore |-> << >>,
                            wasIssued |-> FALSE, resolves |-> FALSE,
                            outcome |-> "None", code |-> "None"]]]
  /\ stdin = << >> /\ stdout = << >> /\ rpcId = 1
  /\ pending = {} /\ calls = << >> /\ taken = << >> /\ arrived = 0
  /\ escrow = << >> /\ now = 0 /\ settled = << >>
  /\ escrowCall = [fn |-> "none", id |-> 0, ok |-> FALSE, error |-> "none"]

InitAside ==
  /\ probe = NoProbe
  /\ gates = [g \in Gate |-> << >>]
  /\ gateLast = NoGateRequest
  /\ InitOthers

Init ==
  /\ wallet \in BOOLEAN
  /\ requireProtocolFee \in BOOLEAN
  /\ feePolicy \in {"structural", "address"}
  /\ (~requireProtocolFee => feePolicy = "structural")
  /\ InitRequests
  /\ InitAside

(***************************************************************************)
(* The handler's segments.                                                 *)
(***************************************************************************)
Arrive(r) ==
  /\ slot[r].pc = "idle"
  /\ slot' = [slot EXCEPT ![r].pc = "awaitPrice"]
  /\ UNCHANGED <<config, usedPrefixes, last, history, batches, aside>>

AfterPrice(r) ==
  /\ slot[r].pc = "awaitPrice"
  /\ \E price \in Prices : \E header \in HeadersOf(price) :
       LET resp == HandleAfterPrice(usedPrefixes, header, price)
           facts == Facts(usedPrefixes, header, price)
       IN
       /\ usedPrefixes' = resp.used
       /\ slot' = [slot EXCEPT ![r] =
                     IF resp.outcome = "Suspended"
                       THEN [pc |-> "awaitWallet", price |-> price,
                             prefix |-> header.derivationPrefix,
                             facts |-> facts]
                       ELSE IdleSlot]
       /\ last' = Segment("afterPrice", price, header, resp, facts)
       /\ IF header.present /\ header.parses
            THEN HistoryStep(resp, header.derivationPrefix)
            ELSE UNCHANGED history
  /\ UNCHANGED <<config, batches, aside>>

WalletHeader(r) ==
  [present |-> TRUE, parses |-> TRUE, derivationPrefix |-> slot[r].prefix,
   transaction |-> [enc |-> "notkept", outs |-> << >>]]

\* the delegate reports the price or more for the transaction it
\* internalized
WalletResolve(r) ==
  /\ slot[r].pc = "awaitWallet"
  /\ \E result \in {PaidPrice, PaidPrice + 5} :
       LET resp == WalletAccepted(usedPrefixes, slot[r].prefix, slot[r].price,
                                  result)
       IN
       /\ usedPrefixes' = resp.used
       /\ last' = Segment("afterWallet", slot[r].price, WalletHeader(r), resp,
                          slot[r].facts \cup {"delegateOk"})
       /\ HistoryStep(resp, slot[r].prefix)
  /\ slot' = [slot EXCEPT ![r] = IdleSlot]
  /\ UNCHANGED <<config, batches, aside>>

WalletReject(r) ==
  /\ slot[r].pc = "awaitWallet"
  /\ LET resp == WalletFailed(usedPrefixes, slot[r].prefix, slot[r].price)
     IN
     /\ usedPrefixes' = resp.used
     /\ last' = Segment("afterWallet", slot[r].price, WalletHeader(r), resp,
                        slot[r].facts)
     /\ HistoryStep(resp, slot[r].prefix)
  /\ slot' = [slot EXCEPT ![r] = IdleSlot]
  /\ UNCHANGED <<config, batches, aside>>

\* calculatePrice(req) throws or its promise rejects: line 83 is outside the
\* try, so the handler's own promise rejects with no response and no next()
PriceFailed ==
  [NoSegment EXCEPT !.seg = "priceFailed", !.price = -1,
                    !.outcome = "Unhandled", !.code = "UnhandledRejection"]

PriceRejects(r) ==
  /\ slot[r].pc = "awaitPrice"
  /\ slot' = [slot EXCEPT ![r] = IdleSlot]
  /\ last' = PriceFailed
  /\ UNCHANGED <<config, usedPrefixes, history, batches, aside>>

Next ==
  \E r \in Req :
    \/ Arrive(r)
    \/ AfterPrice(r)
    \/ PriceRejects(r)
    \/ WalletResolve(r)
    \/ WalletReject(r)

Spec == Init /\ [][Next]_vars

(***************************************************************************)
(* Traffic long enough to fill the replay set.  FreshTraffic is a batch    *)
(* of BatchSize paid requests, handled one after another and all           *)
(* accepted, each with a prefix new to the gate that is never submitted    *)
(* again: each one ends in RecordPrefix.  RecordFresh applies RecordPrefix *)
(* k times; the adds that keep the set at or below CleanupThreshold, where *)
(* cleanupPrefixes changes nothing, are taken together.                    *)
(***************************************************************************)
RECURSIVE RecordFresh(_, _)
RecordFresh(used, k) ==
  LET room == CleanupThreshold - SetSize(used)
      n == IF room >= 0 THEN room + 1 ELSE 1
  IN
  IF k = 0 THEN used
  ELSE IF k <= room THEN SetAddFresh(used, k)
  ELSE RecordFresh(cleanupPrefixes(SetAddFresh(used, n)), k - n)

AllIdle == \A r \in Req : slot[r].pc = "idle"

FreshTraffic ==
  /\ AllIdle
  /\ batches < MaxBatches
  /\ batches' = batches + 1
  /\ usedPrefixes' = RecordFresh(usedPrefixes, BatchSize)
  /\ last' = [NoSegment EXCEPT !.seg = "batch", !.outcome = "Accepted",
                                !.code = "Batch", !.changed = TRUE]
  /\ live' = [q \in Prefixes |->
               IF q \in Evicted(usedPrefixes, usedPrefixes') THEN 0 ELSE live[q]]
  /\ UNCHANGED <<config, slot, accepts, openReject, aside>>

\* requests handled one after another: none arrives while one is in flight
ArriveAlone(r) == AllIdle /\ Arrive(r)

NextEvict ==
  \/ \E r \in Req :
       \/ ArriveAlone(r)
       \/ AfterPrice(r)
       \/ PriceRejects(r)
       \/ WalletResolve(r)
       \/ WalletReject(r)
  \/ FreshTraffic

SpecEvict == Init /\ [][NextEvict]_vars

(***************************************************************************)
(* Scheduling.  Once calculatePrice settles, the event loop runs the       *)
(* handler's continuation; nothing makes wallet.internalizeAction settle:  *)
(* the handler awaits it with no timeout (line 150).                       *)
(***************************************************************************)
SpecLive ==
  Init /\ [][Next]_vars
       /\ \A r \in Req : WF_slot(AfterPrice(r) \/ PriceRejects(r))

(***************************************************************************)
(* The static payment check applied on its own to two transactions and one *)
(* required amount.                                                        *)
(***************************************************************************)
\* lines 186-193: the outputs to the operator's script reach the price
Sufficient(outputs, price) == ~PaymentShort(StaticPaid(outputs), price)

StaticGate ==
  /\ wallet = FALSE /\ requireProtocolFee = FALSE /\ feePolicy = "structural"
  /\ InitRequests

InitVerify ==
  /\ StaticGate
  /\ gates = [g \in Gate |-> << >>] /\ gateLast = NoGateRequest
  /\ InitOthers
  /\ probe \in [op : {"toVerify"}, txA : Txs \cup {TxPlain},
                 txB : Txs \cup {TxPlain},
                 price : {PaidPrice - 5, PaidPrice, PaidPrice + 5},
                 okA : {FALSE}, okB : {FALSE}]

VerifyPair ==
  /\ probe.op = "toVerify"
  /\ probe' = [probe EXCEPT !.op = "verified",
                            !.okA = Sufficient(probe.txA, probe.price),
                            !.okB = Sufficient(probe.txB, probe.price)]
  /\ UNCHANGED <<config, usedPrefixes, slot, last, history, batches,
                 gates, gateLast, others>>

NextVerify == VerifyPair

SpecVerify == InitVerify /\ [][NextVerify]_vars

(***************************************************************************)
(* The decoder applied on its own: a string is decoded, the gate accepts   *)
(* other requests, the string is decoded again; and a transaction is       *)
(* decoded from its hex and from its base64 encoding.                      *)
(***************************************************************************)
NotDecoded ==
  [ok |-> FALSE, outputs |-> << >>, message |-> NoMessage, path |-> "notrun"]

InitDecode ==
  /\ StaticGate
  /\ gates = [g \in Gate |-> << >>] /\ gateLast = NoGateRequest
  /\ InitOthers
  /\ probe \in [op : {"toDecode"}, string : TxStrings,
                 first : {NotDecoded}, second : {NotDecoded}, at : {0}]
             \cup [op : {"toCompare"},
                   string : {HexOf(tx) : tx \in {TxPay, TxUnder, TxPlain}},
                   first : {NotDecoded}, second : {NotDecoded}, at : {0}]

Decode ==
  /\ probe.op = "toDecode"
  /\ probe' = [probe EXCEPT !.op = "decoded",
                            !.first = parseTransaction(probe.string),
                            !.at = SetSize(usedPrefixes)]
  /\ UNCHANGED <<config, usedPrefixes, slot, last, history, batches,
                 gates, gateLast, others>>

DecodeAgain ==
  /\ probe.op = "decoded"
  /\ probe' = [probe EXCEPT !.op = "decodedTwice",
                            !.second = parseTransaction(probe.string)]
  /\ UNCHANGED <<config, usedPrefixes, slot, last, history, batches,
                 gates, gateLast, others>>

\* the hex string and the base64 text of the same transaction
DecodeBoth ==
  /\ probe.op = "toCompare"
  /\ probe' = [probe EXCEPT !.op = "compared",
                            !.first = parseTransaction(probe.string),
                            !.second = parseTransaction(Base64Of(probe.string.outs))]
  /\ UNCHANGED <<config, usedPrefixes, slot, last, history, batches,
                 gates, gateLast, others>>

\* meanwhile the gate accepts a request with prefix p (lines 221-222)
OtherAccepted(p) ==
  /\ ~SetHas(usedPrefixes, p)
  /\ usedPrefixes' = RecordPrefix(usedPrefixes, p)
  /\ UNCHANGED <<config, slot, last, history, batches, aside>>

NextDecode ==
  \/ Decode
  \/ DecodeAgain
  \/ DecodeBoth
  \/ \E p \in Prefixes : OtherAccepted(p)

SpecDecode == InitDecode /\ [][NextDecode]_vars

(***************************************************************************)
(* Several gate instances in one process: each call of                     *)
(* createIndeliblePaymentMiddleware makes its own usedPrefixes (line 77).  *)
(* Requests priced PaidPrice are handled one after another, each by one    *)
(* instance; in wallet mode the delegate resolves or rejects.              *)
(***************************************************************************)
InitGates ==
  /\ wallet \in BOOLEAN
  /\ requireProtocolFee = FALSE /\ feePolicy = "structural"
  /\ InitRequests
  /\ InitAside

GateHandles(g) ==
  /\ \E resolves \in BOOLEAN,
        header \in [present : {TRUE}, parses : {TRUE},
                    derivationPrefix : Prefixes,
                    transaction : {HexOf(TxPay), HexOf(TxUnder), GarbageTx}] :
       LET prefix == header.derivationPrefix
           resp == HandleAfterPrice(gates[g], header, PaidPrice)
           final == IF resp.outcome # "Suspended" THEN resp
                    ELSE IF resolves
                      THEN WalletAccepted(gates[g], prefix, PaidPrice, PaidPrice)
                      ELSE WalletFailed(gates[g], prefix, PaidPrice)
       IN
       /\ gates' = [gates EXCEPT ![g] = final.used]
       /\ gateLast' = [gate |-> g, prefix |-> prefix,
                       outcome |-> final.outcome, code |-> final.code,
                       consumedBefore |->
                         \E h \in Gate : SetHas(gates[h], prefix)]
  /\ UNCHANGED <<config, usedPrefixes, slot, last, history, batches, probe,
                 others>>

NextGates == \E g \in Gate : GateHandles(g)

SpecGates == InitGates /\ [][NextGates]_vars

(***************************************************************************)
(* One client sends proofs to a static or wallet gate one after another,   *)
(* with prefixes of its own choice or with no derivationPrefix field, and  *)
(* pays with the same transactions again; batches of other traffic fill    *)
(* the replay set.  In wallet mode the delegate resolves or rejects before *)
(* the next request arrives.                                               *)
(***************************************************************************)
\* a static or a wallet gate that asks for no protocol fee
InitClient ==
  /\ wallet \in BOOLEAN
  /\ requireProtocolFee = FALSE /\ feePolicy = "structural"
  /\ InitRequests
  /\ InitAside

ClientPays ==
  /\ \E price \in Prices, resolves \in BOOLEAN,
        header \in [present : {TRUE}, parses : {TRUE},
                    derivationPrefix : Prefixes \cup {Undefined},
                    transaction : {HexOf(tx) : tx \in ClientTxs}] :
       LET prefix == header.derivationPrefix
           resp == HandleAfterPrice(usedPrefixes, header, price)
           suspended == resp.outcome = "Suspended"
           final == IF ~suspended THEN resp
                    ELSE IF resolves
                      THEN WalletAccepted(usedPrefixes, prefix, price, price)
                      ELSE WalletFailed(usedPrefixes, prefix, price)
           facts == Facts(usedPrefixes, header, price)
                      \cup (IF suspended /\ resolves THEN {"delegateOk"} ELSE {})
           tx == header.transaction.outs
       IN
       /\ usedPrefixes' = final.used
       /\ last' = Segment("client", price, header, final, facts)
       /\ spent' = IF final.outcome = "Accepted" /\ final.code \in PaidCodes
                     THEN [spent EXCEPT ![tx] = Min2(@ + 1)]
                     ELSE spent
  /\ UNCHANGED <<config, slot, history, batches, probe, gates, gateLast, twin,
                 adapter, escrows>>

NextClient == ClientPays \/ FreshTraffic

SpecClient == InitClient /\ [][NextClient]_vars

(***************************************************************************)
(* Two runs of a gate side by side.  In each, requests priced PaidPrice    *)
(* arrive one after another: a request without a header is challenged, and *)
(* the challenge carries crypto.randomBytes(16) as its prefix, any value;   *)
(* a request with a proof is verified.  issued is what the run's           *)
(* challenges carried: the handler keeps no such record, it reads the      *)
(* replay set only.                                                        *)
(***************************************************************************)
\* a faulty variant: a proof is admitted only with a prefix the gate issued
VerdictIfIssued(used, issued, header, resolves) ==
  IF header.derivationPrefix \notin issued THEN ReplayRejected(used, PaidPrice)
  ELSE LET resp == HandleAfterPrice(used, header, PaidPrice) IN
       IF resp.outcome # "Suspended" THEN resp
       ELSE IF resolves
         THEN WalletAccepted(used, header.derivationPrefix, PaidPrice, PaidPrice)
         ELSE WalletFailed(used, header.derivationPrefix, PaidPrice)

\* lines 124-231 for a proof, the delegate's answer included
Verdict(used, issued, header, resolves) ==
  LET resp == HandleAfterPrice(used, header, PaidPrice) IN
  IF resp.outcome # "Suspended" THEN resp
  ELSE IF resolves
    THEN WalletAccepted(used, header.derivationPrefix, PaidPrice, PaidPrice)
    ELSE WalletFailed(used, header.derivationPrefix, PaidPrice)

TwinChallenged(g) ==
  /\ \E prefix \in Prefixes :
       LET resp == HandleAfterPrice(twin[g].used, NoHeader, PaidPrice) IN
       twin' = [twin EXCEPT ![g].used = resp.used,
                            ![g].issued = @ \cup {prefix}]
  /\ UNCHANGED <<config, usedPrefixes, slot, last, history, batches, probe,
                 gates, gateLast, spent, adapter, escrows>>

TwinVerified(g) ==
  /\ \E resolves \in {r \in BOOLEAN : wallet \/ ~r},
        header \in [present : {TRUE}, parses : {TRUE},
                    derivationPrefix : Prefixes,
                    transaction : {HexOf(tx) : tx \in ClientTxs}] :
       LET run == twin[g]
           resp == Verdict(run.used, run.issued, header, resolves)
       IN
       twin' = [twin EXCEPT
                  ![g].used = resp.used,
                  ![g].served =
                    [header |-> header, usedBefore |-> run.used,
                     wasIssued |-> header.derivationPrefix \in run.issued,
                     resolves |-> resolves,
                     outcome |-> resp.outcome, code |-> resp.code]]
  /\ UNCHANGED <<config, usedPrefixes, slot, last, history, batches, probe,
                 gates, gateLast, spent, adapter, escrows>>

NextTwin == \E g \in Runs : TwinChallenged(g) \/ TwinVerified(g)

SpecTwin == InitClient /\ [][NextTwin]_vars

(***************************************************************************)
(* The MCP adapter.  A line is blank, text that JSON.parse rejects (or     *)
(* null, which handleRequest cannot destructure), or a request with a      *)
(* method; a tools/call request names a tool, or has no params.  The       *)
(* wallet's answer to a proxied call is a result, an HTTP error status, a  *)
(* JSON-RPC error, or none within AbortSignal.timeout(30000).              *)
(***************************************************************************)
TOOLS ==
  {"createAction", "internalizeAction", "listOutputs", "listActions",
   "getPublicKey", "createSignature", "verifySignature",
   "createPaymentChallenge", "verifyPayment", "getConfig", "ping",
   "getCapabilities", "listPeers", "sendInvitation", "listReferrals",
   "searchCapabilities", "hireClaw", "verifyReceipt", "listCourses",
   "takeCourse", "spreadMetrics", "writeMemory", "readMemory", "listMemories",
   "searchMemories", "readMemoryFromChain", "writeMasterIndex",
   "recoverFromMasterIndex", "memoryStats", "fetchFromChain",
   "verifyMemoryOnChain", "getMasterIndexTxid"}

\* a name that is not in TOOLS
UnknownTool == "noSuchTool"

\* the lines that are read: name is "noparams" for a tools/call request
\* without params
LineTexts ==
  [kind : {"blank", "garbage"}, method : {"none"}, name : {"none"}]
    \cup [kind : {"request"},
          method : {"initialize", "tools/list", "notifications/initialized",
                    "bogus/method"},
          name : {"none"}]
    \cup [kind : {"request"}, method : {"tools/call"},
          name : {"ping", UnknownTool, "noparams"}]

\* what console.log writes for the line: the response and the line itself
Written(line, id, kind, code, message) ==
  [seq |-> line.seq, line |-> line, id |-> id, kind |-> kind,
   code |-> code, message |-> message]

\* a faulty variant: every tool name is taken as known
ToolAlwaysFound(name) == TRUE

\* TOOLS.find(t => t.name === name)
ToolFound(name) == name \in TOOLS

\* a faulty variant: a line is taken while a request awaits the wallet
LoopNeverWaits == TRUE

\* for await (const line of rl): the next line is taken when the body of the
\* loop has finished, the await of handleRequest included
LoopReady == pending = {}

\* what the loop writes for a line that is not proxied; main's catch writes
\* id null (0 here) and -32700
Answered(line) ==
  IF line.kind = "garbage"
    THEN << Written(line, 0, "error", -32700, <<"Parse error">>) >>
  ELSE IF line.kind = "blank" THEN << >>
  ELSE IF line.method \in {"initialize", "tools/list"}
    THEN << Written(line, line.seq, "result", 0, << >>) >>
  ELSE IF line.method = "notifications/initialized" THEN << >>
  ELSE IF line.method = "tools/call"
    THEN IF line.name = "noparams"
           THEN << Written(line, line.seq, "error", -32000,
                           <<"Cannot destructure">>) >>
           ELSE << Written(line, line.seq, "error", -32000,
                           <<"Unknown tool: ", line.name>>) >>
  ELSE << Written(line, line.seq, "error", -32601,
                  <<"Method not found: ", line.method>>) >>

InitMcp ==
  /\ wallet = FALSE /\ requireProtocolFee = FALSE /\ feePolicy = "structural"
  /\ InitRequests
  /\ InitAside

LineArrives ==
  /\ arrived < MaxLines
  /\ \E text \in LineTexts :
       stdin' = Append(stdin, [seq |-> arrived + 1, kind |-> text.kind,
                               method |-> text.method, name |-> text.name])
  /\ arrived' = arrived + 1
  /\ UNCHANGED <<stdout, rpcId, pending, calls, taken>>
  /\ UNCHANGED <<config, usedPrefixes, slot, last, history, batches, probe,
                 gates, gateLast, spent, twin, escrows>>

\* one turn of the loop up to its first await of the wallet, or to its end
TakeLine ==
  /\ LoopReady
  /\ stdin # << >>
  /\ LET line == Head(stdin) IN
     /\ stdin' = Tail(stdin)
     /\ taken' = Append(taken, line)
     /\ IF /\ line.kind = "request" /\ line.method = "tools/call"
           /\ line.name # "noparams" /\ ToolFound(line.name)
          THEN /\ calls' = Append(calls, [id |-> rpcId, method |-> line.name,
                                          seq |-> line.seq])
               /\ rpcId' = rpcId + 1
               /\ pending' = pending \cup {line}
               /\ UNCHANGED stdout
          ELSE /\ stdout' = stdout \o Answered(line)
               /\ UNCHANGED <<rpcId, pending, calls>>
  /\ UNCHANGED arrived
  /\ UNCHANGED <<config, usedPrefixes, slot, last, history, batches, probe,
                 gates, gateLast, spent, twin, escrows>>

\* the fetch of callWallet settles and the loop's body runs to its end
WalletAnswered ==
  /\ \E line \in pending,
        answer \in {"result", "httpError", "rpcError", "timeout"} :
       /\ pending' = pending \ {line}
       /\ stdout' = Append(stdout,
            IF answer = "result" THEN Written(line, line.seq, "result", 0, << >>)
            ELSE Written(line, line.seq, "error", -32000,
                         <<"Wallet: ", answer>>))
  /\ UNCHANGED <<stdin, rpcId, calls, taken, arrived>>
  /\ UNCHANGED <<config, usedPrefixes, slot, last, history, batches, probe,
                 gates, gateLast, spent, twin, escrows>>

NextMcp == LineArrives \/ TakeLine \/ WalletAnswered

SpecMcp == InitMcp /\ [][NextMcp]_vars

(***************************************************************************)
(* Escrow.  releaseEscrow and refundEscrow are called in any order, any    *)
(* number of times, with the right or a wrong preimage and with the        *)
(* payer's or another key, while time passes.  Both return a new object    *)
(* and leave the agreement as it is.                                       *)
(***************************************************************************)
\* what a call came to: the object it returned, or the Error it threw
EscrowResult(fn, e, error) ==
  [fn |-> fn, id |-> e, ok |-> (error = "none"), error |-> error]

\* lines 217-237
releaseEscrow(e, preimage) ==
  IF Sha256Hex(preimage) # escrow[e].conditionHash
    THEN EscrowResult("releaseEscrow", e, "Preimage does not match")
    ELSE EscrowResult("releaseEscrow", e, "none")

\* lines 247-272
refundEscrow(e, payerWif) ==
  IF PubKeyOf(payerWif) # escrow[e].payerPubKey
    THEN EscrowResult("refundEscrow", e, "payerWif does not match")
  ELSE IF now < escrow[e].expiresAt
    THEN EscrowResult("refundEscrow", e, "Escrow has not expired yet")
  ELSE EscrowResult("refundEscrow", e, "none")

\* NEscrows agreements between one payer and one payee, with any timeouts;
\* nothing else has happened
InitEscrow ==
  /\ wallet = FALSE /\ requireProtocolFee = FALSE /\ feePolicy = "structural"
  /\ InitRequests
  /\ probe = NoProbe
  /\ gates = [g \in Gate |-> << >>] /\ gateLast = NoGateRequest
  /\ spent = [tx \in ClientTxs |-> 0]
  /\ twin = [g \in Runs |->
               [used |-> << >>, issued |-> {},
                served |-> [header |-> NoHeader, usedBefore |-> << >>,
                            wasIssued |-> FALSE, resolves |-> FALSE,
                            outcome |-> "None", code |-> "None"]]]
  /\ stdin = << >> /\ stdout = << >> /\ rpcId = 1
  /\ pending = {} /\ calls = << >> /\ taken = << >> /\ arrived = 0
  /\ escrow \in [Escrow ->
                   {createEscrow("payerWif", PubKeyOf("payeeWif"),
                                 "secret", t) : t \in 1..(MaxHours - 1)}]
  /\ now = 0
  /\ settled = [e \in Escrow |-> [released |-> FALSE, refunded |-> FALSE]]
  /\ escrowCall = [fn |-> "none", id |-> 0, ok |-> FALSE, error |-> "none"]

HourPasses ==
  /\ now < MaxHours
  /\ now' = now + 1
  /\ UNCHANGED <<escrow, settled, escrowCall>>
  /\ UNCHANGED <<config, usedPrefixes, slot, last, history, batches, probe,
                 gates, gateLast, spent, twin, adapter>>

Release(e) ==
  /\ \E preimage \in {"secret", "guess"} :
       LET result == releaseEscrow(e, preimage) IN
       /\ escrowCall' = result
       /\ settled' = IF result.ok THEN [settled EXCEPT ![e].released = TRUE]
                      ELSE settled
  /\ UNCHANGED <<escrow, now>>
  /\ UNCHANGED <<config, usedPrefixes, slot, last, history, batches, probe,
                 gates, gateLast, spent, twin, adapter>>

Refund(e) ==
  /\ \E payerWif \in {"payerWif", "payeeWif"} :
       LET result == refundEscrow(e, payerWif) IN
       /\ escrowCall' = result
       /\ settled' = IF result.ok THEN [settled EXCEPT ![e].refunded = TRUE]
                      ELSE settled
  /\ UNCHANGED <<escrow, now>>
  /\ UNCHANGED <<config, usedPrefixes, slot, last, history, batches, probe,
                 gates, gateLast, spent, twin, adapter>>

NextEscrow == HourPasses \/ \E e \in Escrow : Release(e) \/ Refund(e)

SpecEscrow == InitEscrow /\ [][NextEscrow]_vars

(***************************************************************************)
(* buildOracleConsensus (src/oracle.js) applied to a list of attestations. *)
(* An attestation is what verifyOracleAttestation reads of it: the signing *)
(* oracle's key, the data type, the value, and whether the signature       *)
(* verifies.  The values are strings, so the keys of valueCounts are not   *)
(* integer-like and Object.entries yields them in insertion order.  The    *)
(* agreement ratio is kept in hundredths, as Math.round(ratio * 100).      *)
(***************************************************************************)
Values == {"X", "Y"}

\* verified attestations of three oracles for one data type, one whose
\* signature does not verify, and one of another data type
Attestations ==
  [oraclePubKey : {"O1", "O2", "O3"}, dataType : {"price"}, value : Values,
   valid : {TRUE}]
    \cup {[oraclePubKey |-> "O1", dataType |-> "price", value |-> "Y",
           valid |-> FALSE],
          [oraclePubKey |-> "O2", dataType |-> "temp", value |-> "X",
           valid |-> TRUE]}

NoConsensus ==
  [threw |-> FALSE, consensus |-> FALSE, value |-> "null",
   agreementRatio |-> 0, oracleCount |-> 0, totalAttestations |-> 0]

\* the keys of valueCounts in insertion order
RECURSIVE ValueKeys(_, _, _)
ValueKeys(verified, i, keys) ==
  IF i > Len(verified) THEN keys
  ELSE IF \E k \in 1..Len(keys) : keys[k] = verified[i].value
    THEN ValueKeys(verified, i + 1, keys)
    ELSE ValueKeys(verified, i + 1, Append(keys, verified[i].value))

\* lines 141-148: the first key whose count exceeds every earlier one; count
\* is valueCounts[key] after the loop of lines 134-138
RECURSIVE Majority(_, _, _, _, _)
Majority(verified, keys, k, maxCount, majorityValue) ==
  IF k > Len(keys) THEN [maxCount |-> maxCount, majorityValue |-> majorityValue]
  ELSE LET count == Cardinality({i \in 1..Len(verified) :
                                   verified[i].value = keys[k]})
       IN
       IF count > maxCount
         THEN Majority(verified, keys, k + 1, count, keys[k])
         ELSE Majority(verified, keys, k + 1, maxCount, majorityValue)

\* agreementRatio is Math.round(agreementRatio * 100), halves rounded up
buildOracleConsensus(attestations) ==
  LET IsValid(a) == a.valid
      verified == SelectSeq(attestations, IsValid)
  IN
  IF Len(attestations) = 0 \/ Len(verified) = 0 THEN NoConsensus
  ELSE IF Cardinality({verified[i].dataType : i \in 1..Len(verified)}) > 1
    THEN [NoConsensus EXCEPT !.threw = TRUE]
  ELSE
    LET m == Majority(verified, ValueKeys(verified, 1, << >>), 1, 0, "null")
    IN [threw |-> FALSE,
        consensus |-> 2 * m.maxCount > Len(verified),
        value |-> m.majorityValue,
        agreementRatio |->
          (200 * m.maxCount + Len(verified)) \div (2 * Len(verified)),
        oracleCount |->
          Cardinality({verified[i].oraclePubKey : i \in 1..Len(verified)}),
        totalAttestations |-> Len(verified)]

InitOracle ==
  /\ StaticGate
  /\ gates = [g \in Gate |-> << >>] /\ gateLast = NoGateRequest
  /\ InitOthers
  /\ probe \in [op : {"toBuild"},
                 attestations : UNION {[1..n -> Attestations] :
                                         n \in 0..MaxAttestations},
                 result : {NoConsensus}]

BuildConsensus ==
  /\ probe.op = "toBuild"
  /\ probe' = [probe EXCEPT !.op = "built",
                            !.result = buildOracleConsensus(probe.attestations)]
  /\ UNCHANGED <<config, usedPrefixes, slot, last, history, batches,
                 gates, gateLast, others>>

NextOracle == BuildConsensus

SpecOracle == InitOracle /\ [][NextOracle]_vars

(***************************************************************************)
(* The claims.                                                             *)
(***************************************************************************)
PaidAccepted == last.outcome = "Accepted" /\ last.code \in PaidCodes

\* the slot r ends its request in this step
Completes(r) ==
  slot[r].pc \in {"awaitPrice", "awaitWallet"} /\ slot'[r].pc = "idle"

\* C1: a request with a non-zero price is admitted only if it carried a
\* proof, its prefix was absent from the replay set when checked, its
\* transaction decoded, and the payment was verified (the static sum reaches
\* the price, or the wallet delegate returned).
C1_AdmittedOnlyVerified ==
  (last.outcome = "Accepted" /\ last.price # 0) =>
     /\ last.hasProof
     /\ "prefixAbsent" \in last.facts
     /\ "txDecoded" \in last.facts
     /\ IF wallet THEN "delegateOk" \in last.facts ELSE "paid" \in last.facts

C1_Witness ==
  /\ last.outcome = "Accepted" /\ last.price = PaidPrice
  /\ ~wallet /\ ~requireProtocolFee /\ last.tx = HexOf(TxPay)

\* C2 as stated: over any sequence of requests, however long, a prefix is
\* accepted at most once.
C2_AcceptedAtMostOnceEver == \A p \in Prefixes : accepts[p] <= 1

\* C2 as amended: over requests handled one after another, a prefix is
\* accepted at most once while it stays in the replay set (since it was last
\* evicted), and every submission of it in that time yields ReplayDetected.
C2_AcceptedOnceWhileRecorded ==
  /\ \A p \in Prefixes : live[p] <= 1
  /\ (/\ last.seg = "afterPrice" /\ last.price # 0 /\ last.hasProof
      /\ last.outcome # "Accepted" /\ live[last.prefix] = 1)
       => last.code = "ReplayDetected"

C2_Witness ==
  /\ last.code = "ReplayDetected"
  /\ accepts[last.prefix] = 2 /\ live[last.prefix] = 1

\* C3: of requests processed concurrently with the same prefix at most one
\* is accepted, in every configuration: an accepted paid request is the only
\* one accepted with its prefix.
C3_OneOfConcurrentAccepted ==
  PaidAccepted => accepts[last.prefix] <= 1

C5_StaticSum ==
  (~wallet /\ last.seg = "afterPrice" /\ "verify" \in last.steps) =>
     LET sum == MatchingSum(last.tx.outs, operatorAddress) IN
     /\ (last.code # "InsufficientPayment") <=> (sum >= last.price)
     /\ last.outcome = "Accepted" => last.satoshisPaid = sum

C5_Witness ==
  /\ ~wallet /\ last.outcome = "Accepted" /\ last.tx = HexOf(TxSplitFee)
  /\ last.satoshisPaid = PaidPrice

\* C6: with requireProtocolFee set, every accepted paid request has passed
\* the protocol fee check, in static and in wallet-delegate mode: no
\* transaction that fails the fee check is accepted.
C6_FeeCheckedWhenRequired ==
  (requireProtocolFee /\ PaidAccepted) => "feePaid" \in last.facts

\* C7 as stated: while a prefix is in the replay set, every request that
\* carries it is rejected with ReplayDetected.
C7_EveryCarrierRejected ==
  [][\A r \in Req :
       (Completes(r) /\ last'.hasProof /\ SetHas(usedPrefixes, last'.prefix))
         => last'.code = "ReplayDetected"]_vars

\* C7 as amended: a request with a non-zero price whose replay check finds
\* its prefix in the replay set is rejected with ReplayDetected (400)
\* whatever its transaction, and nothing else is run for it.
C7_PaidReplayRejected ==
  (/\ last.seg = "afterPrice" /\ last.price # 0 /\ last.hasProof
   /\ "prefixAbsent" \notin last.facts)
    => /\ last.outcome = "Rejected" /\ last.status = 400
       /\ last.code = "ReplayDetected"
       /\ last.steps = {"replayCheck"}

C7_Witness ==
  /\ last.code = "ReplayDetected" /\ last.tx = AbsentTx
  /\ SetHas(usedPrefixes, last.prefix)

SufficientProof ==
  /\ last.outcome \in {"Accepted", "Rejected"}
  /\ last.price # 0 /\ last.hasProof
  /\ IF wallet THEN "delegateOk" \in last.facts
     ELSE /\ {"txDecoded", "paid"} \subseteq last.facts
          /\ requireProtocolFee => "feePaid" \in last.facts

\* C9: after a prefix was rejected by a verification step, and while no
\* request carrying it has been accepted, a request reusing it with a
\* sufficient transaction is accepted.
C9_RetryAccepted ==
  (last.retry /\ SufficientProof) => last.outcome = "Accepted"

C9_Witness ==
  last.retry /\ last.outcome = "Accepted" /\ last.satoshisPaid > 0

\* C10: a request priced 0 is accepted at once with satoshisPaid = 0,
\* whatever its header; no check runs and the replay set is not changed.
C10_FreePass ==
  [][\A r \in Req :
       (slot[r].pc = "awaitPrice" /\ Completes(r) /\ last'.price = 0)
         => /\ last'.outcome = "Accepted" /\ last'.satoshisPaid = 0
            /\ last'.steps = {}
            /\ usedPrefixes' = usedPrefixes
            /\ \A q \in Req \ {r} : slot'[q] = slot[q]]_vars

C10_Witness ==
  /\ last.seg = "afterPrice" /\ last.price = 0 /\ last.outcome = "Accepted"
  /\ last.hasProof /\ SetHas(usedPrefixes, last.prefix)

\* C11: a request with a non-zero price and no payment header is answered
\* with 402, code ERR_PAYMENT_REQUIRED, satoshisRequired equal to the price
\* and the configured operatorAddress; next is not called and the replay set
\* is left as it was.
C11_Challenge ==
  (last.seg = "afterPrice" /\ last.price # 0 /\ ~last.hasHeader) =>
     /\ last.outcome = "Challenged" /\ last.status = 402
     /\ last.code = "ERR_PAYMENT_REQUIRED"
     /\ last.satoshisRequired = last.price
     /\ last.operatorAddress = operatorAddress
     /\ ~last.changed

C11_Witness ==
  /\ last.outcome = "Challenged" /\ last.satoshisRequired = PaidPrice
  /\ usedPrefixes # << >>

\* C12: every invocation ends with next called and no response, or with one
\* 400 or 402 response and next not called; no failure of a step leaves the
\* handler as an unhandled fault.
C12_OneOutcomeNoFault ==
  (last.seg \in {"afterPrice", "afterWallet", "priceFailed"}
   /\ last.outcome # "Suspended") =>
     \/ last.outcome = "Accepted" /\ last.status = 0
     \/ last.outcome \in {"Challenged", "Rejected"} /\ last.status \in {400, 402}

\* C13: a proof that reaches the decoder (non-zero price, prefix not in the
\* replay set) with a transaction string that fails on any of the four
\* decoder paths is rejected with 400 InvalidTransactionFormat carrying the
\* parser's message; neither verification nor the delegate call follows and
\* the replay set is left as it was.  ParserMessageOf is the message of the
\* library decoder that a string of each path ends in.
C13_DecodeFailure ==
  LET ParserMessageOf(transaction) ==
        IF transaction = BadBeef THEN "fromBEEF failed"
        ELSE IF transaction = BadAtomicBeef THEN "fromAtomicBEEF failed"
        ELSE "fromHex failed"
  IN
  (/\ last.seg = "afterPrice" /\ last.price # 0 /\ last.hasProof
   /\ "prefixAbsent" \in last.facts /\ last.tx \in Undecodable) =>
     /\ last.outcome = "Rejected" /\ last.status = 400
     /\ last.code = "InvalidTransactionFormat"
     /\ last.message = <<"Invalid transaction: ", ParserMessageOf(last.tx)>>
     /\ last.steps \cap {"verify", "feeCheck", "walletCall", "record"} = {}
     /\ ~last.changed

C13_Witness ==
  /\ wallet /\ last.tx = BadBeef /\ last.code = "InvalidTransactionFormat"
  /\ usedPrefixes # << >>

\* C14: between requests the replay set holds at most 10,000 prefixes, and
\* the record of the 10,001st distinct prefix completes.
C14_SetBounded == SetSize(usedPrefixes) <= CleanupThreshold

C14_Witness ==
  /\ last.seg = "afterPrice" /\ last.outcome = "Accepted" /\ last.changed
  /\ batches = 1
  /\ SetSize(usedPrefixes) = CleanupThreshold + 1 - CleanupCount

\* the members of s inserted before q
RECURSIVE MembersBefore(_, _)
MembersBefore(s, q) ==
  IF s = << >> \/ Head(s).tok = q THEN 0
  ELSE Head(s).n + MembersBefore(Tail(s), q)

\* C15: a request that records its prefix p into a set of n - 1 members
\* leaves, if n > 10,000, the set without its 5,000 earliest-inserted members
\* and with every later one, p included; if n <= 10,000 it evicts nothing.
C15_EvictOldest ==
  [][\A r \in Req :
       (Completes(r) /\ last'.changed) =>
          LET p == last'.prefix
              n == SetSize(usedPrefixes) + 1
          IN
          /\ ~SetHas(usedPrefixes, p) /\ SetHas(usedPrefixes', p)
          /\ IF n > 10000
               THEN /\ SetSize(usedPrefixes') = n - 5000
                    /\ \A q \in Prefixes \ {p} :
                         SetHas(usedPrefixes', q) <=>
                           /\ SetHas(usedPrefixes, q)
                           /\ MembersBefore(usedPrefixes, q) >= 5000
               ELSE /\ SetSize(usedPrefixes') = n
                    /\ \A q \in Prefixes \ {p} :
                         SetHas(usedPrefixes', q) <=> SetHas(usedPrefixes, q)]_vars

C15_Witness ==
  /\ last.seg = "afterPrice" /\ last.outcome = "Accepted" /\ last.changed
  /\ SetHas(usedPrefixes, last.prefix)
  /\ SetSize(usedPrefixes) = CleanupThreshold + 1 - CleanupCount
  /\ \E q \in Prefixes : accepts[q] = 1 /\ live[q] = 0 /\ ~SetHas(usedPrefixes, q)

\* C16: in wallet mode the satoshisPaid of an accepted request is the
\* amount the delegate reported for the transaction.
C16_DelegateAmount ==
  last.code = "Internalized" => last.satoshisPaid = last.result

\* C17: under the structural fee policy an accepted request's transaction
\* has, after its first output, an output of at least FEE_SATS that is not
\* one of the outputs counted toward the payment.
C17_FeeOutputApart ==
  (/\ ~wallet /\ requireProtocolFee /\ feePolicy = "structural"
   /\ PaidAccepted) =>
     \E i \in 2..Len(last.tx.outs) :
        /\ last.tx.outs[i].satoshis >= 2
        /\ last.tx.outs[i].lockingScript # P2PKHLock(operatorAddress)

\* C18: under the address fee policy a request that passed payment
\* verification is accepted iff the outputs locked to the fee address's
\* script sum to at least 2.  PassedPayment: the static sum reached the
\* price, or the delegate returned.
C18_AddressFee ==
  LET PassedPayment ==
        /\ last.outcome \in {"Accepted", "Rejected"} /\ last.price # 0
        /\ IF wallet THEN "delegateOk" \in last.facts
           ELSE "verify" \in last.steps /\ "paid" \in last.facts
  IN
  (requireProtocolFee /\ feePolicy = "address" /\ PassedPayment) =>
     (last.outcome = "Accepted" <=> "feePaid" \in last.facts)

\* C19: replay, invalid transaction format and insufficient payment are
\* answered with 400 and an error message; a failed fee check is answered
\* with 402 and code ERR_MISSING_FEE under every fee policy.
C19_StatusMapping ==
  /\ last.code \in {"ReplayDetected", "InvalidTransactionFormat",
                    "InsufficientPayment"}
       => last.status = 400 /\ last.message # NoMessage
  /\ (last.outcome = "Rejected" /\ "feeCheck" \in last.steps)
       => last.status = 402 /\ last.code = "ERR_MISSING_FEE"

\* C20: in static mode a decoded transaction whose outputs locked to the
\* operator's script sum to less than the price is rejected with
\* InsufficientPayment; the response reports that sum and the price, and the
\* replay set is left as it was.
C20_InsufficientReport ==
  (/\ ~wallet /\ last.seg = "afterPrice" /\ last.price # 0 /\ last.hasProof
   /\ {"prefixAbsent", "txDecoded"} \subseteq last.facts
   /\ MatchingSum(last.tx.outs, operatorAddress) < last.price) =>
     LET sum == MatchingSum(last.tx.outs, operatorAddress) IN
     /\ last.outcome = "Rejected" /\ last.status = 400
     /\ last.code = "InsufficientPayment"
     /\ last.satoshisPaid = sum /\ last.satoshisRequired = last.price
     /\ last.message = <<"Insufficient payment: ", sum, " sats paid, ",
                         last.price, " required">>
     /\ ~last.changed

C20_Witness ==
  /\ last.code = "InsufficientPayment" /\ last.satoshisPaid = PaidPrice - 5
  /\ last.satoshisRequired = PaidPrice /\ usedPrefixes # << >>

\* C21: under fairness every request that has started reaches a terminal
\* outcome, even if the wallet delegate never responds.
C21_EveryRequestEnds ==
  \A r \in Req : (slot[r].pc # "idle") ~> (slot[r].pc = "idle")

\* C22: with a wallet delegate configured no request is decided by static
\* output matching or the fee check, and a delegate failure rejects; with
\* none configured the delegate is never called.
C22_StrategyFixed ==
  /\ wallet =>
       /\ last.steps \cap {"verify", "feeCheck"} = {}
       /\ last.code \notin {"Paid", "InsufficientPayment"}
       /\ last.seg = "afterWallet" =>
            "walletCall" \in last.steps /\ last.code \in
              {"Internalized", "WalletInternalizationFailed"}
  /\ ~wallet =>
       /\ "walletCall" \notin last.steps
       /\ last.seg # "afterWallet"
       /\ \A r \in Req : slot[r].pc # "awaitWallet"

C22_Witness ==
  /\ wallet /\ last.code = "WalletInternalizationFailed"
  /\ "paid" \in last.facts

\* C23: for a fixed required amount, if a transaction paying A to the
\* operator's script is taken as sufficient, so is every transaction paying
\* A' >= A to it.
C23_Monotonic ==
  (/\ probe.op = "verified" /\ probe.okA
   /\ MatchingSum(probe.txB, operatorAddress)
        >= MatchingSum(probe.txA, operatorAddress))
    => probe.okB

C23_Witness ==
  /\ probe.op = "verified" /\ probe.okA /\ probe.okB
  /\ MatchingSum(probe.txB, operatorAddress)
       > MatchingSum(probe.txA, operatorAddress)

\* the strings of TxStrings by their text and by their base64-decoded bytes
HexCharStrings ==
  {BadHex, Base64Of(TxPlain)} \cup {HexOf(tx) : tx \in {TxPay, TxUnder, TxPlain}}

BeefMagicStrings == {BeefOf(TxPay), BadBeef, BeefMagicOnly}

AtomicMagicStrings == {AtomicBeefOf(TxPay), BadAtomicBeef, AtomicMagicOnly}

\* C24 as stated: hexadecimal characters only: raw hex; otherwise by the
\* first 4 base64-decoded bytes: 0x0100BEEF envelope, 0x01010101 atomic
\* envelope, anything else raw.
C24_FirstMatch ==
  probe.op \in {"decoded", "decodedTwice"} =>
    probe.first.path =
      IF probe.string \in HexCharStrings THEN "hex"
      ELSE IF probe.string \in BeefMagicStrings THEN "beef"
      ELSE IF probe.string \in AtomicMagicStrings THEN "atomicbeef"
      ELSE "raw"

\* C24 as amended: the envelope decoders are chosen only when the decoded
\* bytes are more than 4 bytes long; the 4 magic bytes alone are decoded as
\* a raw transaction.
C24_FirstMatchLongerThan4 ==
  probe.op \in {"decoded", "decodedTwice"} =>
    probe.first.path =
      IF probe.string \in HexCharStrings THEN "hex"
      ELSE IF probe.string \in BeefMagicStrings \ {BeefMagicOnly} THEN "beef"
      ELSE IF probe.string \in AtomicMagicStrings \ {AtomicMagicOnly}
        THEN "atomicbeef"
      ELSE "raw"

C24_Witness ==
  /\ probe.op = "decoded" /\ probe.string = BeefMagicOnly
  /\ probe.first.path = "raw"

\* C25: the hex encoding of a transaction and the base64 encoding of the
\* same bytes decode to equal values (both fail or both give the same
\* outputs).
C25_RoundTrip ==
  probe.op = "compared" =>
    /\ probe.first.ok = probe.second.ok
    /\ probe.first.outputs = probe.second.outputs

C28_SharedReplaySet ==
  gateLast.consumedBefore =>
    gateLast.outcome = "Rejected" /\ gateLast.code = "ReplayDetected"

\* C29: a proof is answered with the error of the earliest check it fails,
\* in the order replay, transaction presence, decode, payment, fee; the
\* prefix is recorded only by a request that passed every check.
\* EarliestFailure is the code of the earliest check that the request of the
\* last segment fails.
C29_CheckOrder ==
  LET EarliestFailure ==
        IF "prefixAbsent" \notin last.facts THEN {"ReplayDetected"}
        ELSE IF last.tx = AbsentTx THEN {"InvalidPaymentTransaction"}
        ELSE IF "txDecoded" \notin last.facts THEN {"InvalidTransactionFormat"}
        ELSE IF wallet THEN {"AwaitingWallet"}
        ELSE IF "paid" \notin last.facts THEN {"InsufficientPayment"}
        ELSE IF requireProtocolFee /\ "feePaid" \notin last.facts
          THEN {"ERR_MISSING_FEE", "ProtocolFeeMissing"}
        ELSE {"Paid"}
  IN
  /\ (last.seg = "afterPrice" /\ last.price # 0 /\ last.hasProof)
       => last.code \in EarliestFailure
  /\ ("record" \in last.steps \/ (last.changed /\ last.seg # "batch"))
       => last.outcome = "Accepted" /\ last.code \in PaidCodes

C29_Witness ==
  /\ ~wallet /\ requireProtocolFee /\ last.code = "InsufficientPayment"
  /\ "feePaid" \notin last.facts /\ usedPrefixes # << >>

\* C30: in static mode, of the requests that carry one prefix, in every
\* interleaving, the first that reaches the replay check with a sufficient
\* transaction is accepted and every later one is rejected as a replay.
C30_StaticAtomic ==
  ~wallet =>
    /\ \A p \in Prefixes : accepts[p] <= 1
    /\ (/\ last.seg = "afterPrice" /\ last.price # 0 /\ last.hasProof
        /\ accepts[last.prefix] = 1 /\ last.outcome # "Accepted")
         => last.code = "ReplayDetected"
    /\ (SufficientProof /\ "prefixAbsent" \in last.facts)
         => last.outcome = "Accepted"

C30_Witness ==
  /\ ~wallet /\ last.code = "ReplayDetected" /\ "paid" \in last.facts
  /\ \E r \in Req : slot[r].pc = "awaitPrice"

\* a request whose header JSON.parse rejects, or whose proof has no usable
\* transaction field
\* C34 as stated: a header that is not valid JSON, or whose transaction field
\* is missing, empty or not a string, is rejected with 400; the decoder, the
\* verifier and the delegate are not called and the replay set is unchanged.
C34_BrokenHeaderRejected ==
  (/\ last.seg = "afterPrice" /\ last.hasHeader
   /\ (~last.hasProof \/ last.tx = AbsentTx)) =>
    /\ last.outcome = "Rejected" /\ last.status = 400
    /\ last.steps \subseteq {"replayCheck"}
    /\ ~last.changed

\* C34 as amended: the same, for a request with a non-zero price; a request
\* priced 0 is admitted whatever its header.
C34_PaidBrokenHeaderRejected ==
  last.price # 0 => C34_BrokenHeaderRejected

C34_Witness ==
  /\ last.seg = "afterPrice" /\ last.hasHeader /\ last.tx = AbsentTx
  /\ last.hasProof /\ last.price # 0
  /\ last.code = "InvalidPaymentTransaction" /\ usedPrefixes # << >>

\* C31: no transaction is accepted for more than one paid request: once it
\* was accepted under a prefix, the same transaction under another prefix
\* that is not in the replay set is rejected.
C31_TransactionAcceptedOnce == \A tx \in ClientTxs : spent[tx] <= 1

C33_SharedToken ==
  (last.seg = "client" /\ last.hasProof /\ last.prefix = Undefined) =>
    /\ "prefixAbsent" \notin last.facts => last.code = "ReplayDetected"
    /\ ("prefixAbsent" \in last.facts /\ SufficientProof)
         => /\ last.outcome = "Accepted"
            /\ SetHas(usedPrefixes, Undefined)

\* C33 as amended: the same, for requests with a non-zero price; a request
\* priced 0 is admitted whatever its header.
C33_PaidSharedToken == last.price # 0 => C33_SharedToken

C33_Witness ==
  /\ last.seg = "client" /\ last.hasProof /\ last.prefix = Undefined
  /\ last.price # 0 /\ last.code = "ReplayDetected"
  /\ "paid" \in last.facts /\ batches > 0

\* C35: a tools/call request whose tool name is not in TOOLS is answered with
\* error -32000 'Unknown tool' and never proxied to the wallet; an unknown
\* method is answered with error -32601; notifications/initialized gets no
\* response.  AnsweredWithError: the line was answered on stdout with the
\* error.
C35_UnknownToolNotProxied ==
  /\ \A i \in 1..Len(calls) : calls[i].method \in TOOLS
  /\ \A i \in 1..Len(taken) :
       LET line == taken[i]
           AnsweredWithError(l, code, message) ==
             \E j \in 1..Len(stdout) :
               /\ stdout[j].seq = l.seq /\ stdout[j].kind = "error"
               /\ stdout[j].id = l.seq
               /\ stdout[j].code = code /\ stdout[j].message = message
       IN
       line.kind = "request" =>
         /\ (line.method = "tools/call" /\ line.name = UnknownTool)
              => /\ AnsweredWithError(line, -32000,
                                      <<"Unknown tool: ", UnknownTool>>)
                 /\ \A k \in 1..Len(calls) : calls[k].seq # line.seq
         /\ line.method = "bogus/method"
              => AnsweredWithError(line, -32601,
                                   <<"Method not found: ", "bogus/method">>)
         /\ line.method = "notifications/initialized"
              => \A j \in 1..Len(stdout) : stdout[j].seq # line.seq

C35_Witness ==
  /\ calls # << >>
  /\ \E i \in 1..Len(taken) :
       taken[i].method = "tools/call" /\ taken[i].name = UnknownTool
  /\ \E i \in 1..Len(taken) : taken[i].method = "notifications/initialized"

\* C36: lines are handled one at a time in arrival order: the response to a
\* line is written before the next line is taken, at most one wallet call
\* is in flight, and each proxied call has an id greater than all earlier
\* ones.  Responds: the adapter answers the line.
C36_OneLineAtATime ==
  LET Responds(line) ==
        \/ line.kind = "garbage"
        \/ line.kind = "request" /\ line.method # "notifications/initialized"
  IN
  /\ Cardinality(pending) <= 1
  /\ \A i, j \in 1..Len(calls) : i < j => calls[i].id < calls[j].id
  /\ \A i \in 1..Len(taken) : taken[i].seq = i
  /\ \A i, j \in 1..Len(stdout) : i < j => stdout[i].seq < stdout[j].seq
  /\ \A i \in 1..(Len(taken) - 1) :
       Responds(taken[i]) => \E j \in 1..Len(stdout) : stdout[j].seq = i

C36_Witness ==
  /\ Len(calls) >= 2 /\ pending # {} /\ stdin # << >>
  /\ Len(stdout) = 1

\* C37: for every agreement and every sequence of releaseEscrow and
\* refundEscrow calls on it, not both a release and a refund succeed.
C37_ReleaseOrRefund ==
  \A e \in Escrow : ~(settled[e].released /\ settled[e].refunded)

\* C38: each oracle key counts once towards the majority value: when the
\* result is consensus = true for a value, no other value is attested by
\* more distinct oracles.  OraclesFor(value) is the set of oracles with a
\* valid attestation of the value in the list.
C38_OneVotePerOracle ==
  LET OraclesFor(value) ==
        {probe.attestations[i].oraclePubKey :
           i \in {j \in 1..Len(probe.attestations) :
                    /\ probe.attestations[j].valid
                    /\ probe.attestations[j].value = value}}
  IN (probe.op = "built" /\ probe.result.consensus) =>
       \A other \in Values \ {probe.result.value} :
         Cardinality(OraclesFor(other))
           <= Cardinality(OraclesFor(probe.result.value))

=============================================================================
